---- MODULE Spec2Model ----
(***************************************************************************)
(* Chapter11/Chp11-Ex6.cpp: Person / Student with the static population    *)
(* counter Student::numStudents, the validation operations that throw,     *)
(* main's try / catch chain and the registered terminate function.         *)
(*                                                                         *)
(* A Student object lives in a slot; `students` maps the live slots to the *)
(* objects' fields.  A float is kept as its number of tenths.               *)
(***************************************************************************)
EXTENDS Integers, Sequences, FiniteSets, TLC

VARIABLES
    pc,                \* position of the program: start, main, thrown, handling,
                       \* terminating, afterTry, exited, returned
    terminateHandler,  \* the function std::terminate calls
    students,          \* live slot -> the Student's data members
    ctor,              \* live slot -> which constructor built it
    numStudents,       \* Student::numStudents
    validation,        \* the validation function called last (Graduate, Validate
                       \* or an override of one) and its object
    fault,             \* the exception object thrown, NoFault when none
    tryChain,          \* the handler lists of the try blocks active at the throw
    clause,            \* index in MainClauses of the selected handler, 0 when none
    handled,           \* the catch clauses whose handler has run
    hookRuns,          \* number of calls of AppSpecificTerminate
    output,            \* lines written to cout
    exitStatus         \* status of the process once it has ended, NoStatus before

vars == <<pc, terminateHandler, students, ctor, numStudents, validation, fault,
          tryChain, clause, handled, hookRuns, output, exitStatus>>

\* Number of Student objects that can be live at once.
MaxStudents == 2

Slots == 1..MaxStudents

Live == DOMAIN students

\* ------------------------------------------------------------------ floats

\* operator<< of a float (given in tenths) with the stream's default format:
\* no trailing zero, no decimal point for a whole number
FormatFloat(f) ==
    IF f % 10 = 0 THEN ToString(f \div 10)
    ELSE ToString(f \div 10) \o "." \o ToString(f % 10)

\* the threshold 2.0 of Graduate, in tenths
GpaThreshold == 20

\* the number Graduate gives its StudentException
GraduateCode == 5

\* ------------------------------------------------------------------ faults

NoFault == [kind |-> "none", payload |-> 0]

NoStatus == -1

NoValidation == [op |-> "none", self |-> 0]

\* Student::StudentException::StudentException(int)
StudentException(num) == [number |-> num]

\* StudentException::GetNum
GetNum(e) == e.number

\* Student::Graduate: the exception it throws; NoFault would be a return
GraduateLowGpaSwapped(s) ==
    IF s.gpa < GpaThreshold
    THEN [kind |-> "StudentException", payload |-> StudentException(GraduateCode)]
    ELSE [kind |-> "float", payload |-> s.gpa]

GraduateReturnsOnPass(s) ==
    IF s.gpa < GpaThreshold
    THEN [kind |-> "float", payload |-> s.gpa]
    ELSE NoFault

Graduate(s) ==
    IF s.gpa < GpaThreshold
    THEN [kind |-> "float", payload |-> s.gpa]
    ELSE [kind |-> "StudentException", payload |-> StudentException(GraduateCode)]

\* Student::Validate: always throws the string literal
Validate(s) ==
    [kind |-> "const char*", payload |-> "Student does not meet prerequisites"]

\* Student::TakePrerequisites: returns false, throws nothing
TakePrerequisites(s) == FALSE

\* What an override of the virtual Graduate / Validate can throw besides the
\* above: the int and the Course of the alternatives written in Graduate, and
\* a StudentException with another number.
OverrideFaults ==
    {[kind |-> "int", payload |-> 3],
     [kind |-> "Course", payload |-> 1234],
     [kind |-> "StudentException", payload |-> StudentException(1)]}

\* ------------------------------------------------------------------ handlers

\* the catch clauses of main's try block, in declaration order
CatchAllFirst == <<"...", "float", "int", "const char*", "StudentException">>

MainClauses == <<"float", "int", "const char*", "StudentException", "...">>

\* whether a catch clause of type c accepts the exception f: the type must be
\* the same (no arithmetic conversion takes part), and ... accepts anything
Accepts(c, f) == c = "..." \/ c = f.kind

\* index of the first clause of cs, from i on, that accepts f; 0 when none
RECURSIVE FirstMatch(_, _, _)
FirstMatch(cs, f, i) ==
    IF i > Len(cs) THEN 0
    ELSE IF Accepts(cs[i], f) THEN i
    ELSE FirstMatch(cs, f, i + 1)

\* the search through the active try blocks, innermost first:
\* <<level, clause>>, <<0, 0>> when no clause of any level accepts f
RECURSIVE FindHandler(_, _, _)
FindHandler(chain, f, lvl) ==
    IF lvl > Len(chain) THEN <<0, 0>>
    ELSE IF FirstMatch(chain[lvl], f, 1) # 0
         THEN <<lvl, FirstMatch(chain[lvl], f, 1)>>
    ELSE FindHandler(chain, f, lvl + 1)

\* ------------------------------------------------------------------ objects

\* the arguments main and the scenarios give the alternate constructor
Ling == [firstName |-> "Ling", lastName |-> "Mau", middleInitial |-> "I",
         title |-> "Ms.", gpa |-> 31, currentCourse |-> "C++",
         studentId |-> "55UD"]

ParamInputs ==
    {Ling,
     [firstName |-> "Sara", lastName |-> "Kato", middleInitial |-> "B",
      title |-> "Miss", gpa |-> 15, currentCourse |-> "C++",
      studentId |-> "12AB"],
     [firstName |-> "Zack", lastName |-> "Moon", middleInitial |-> "R",
      title |-> "Dr.", gpa |-> 20, currentCourse |-> "C++",
      studentId |-> "34CD"]}

CourseInputs == {"Adv. C++"}

\* std::to_string(int)
to_string(n) == ToString(n)

\* Student::Student(): Person() and the in-class initializers, the id from
\* the counter
DefaultStudent(n) ==
    [firstName |-> "", lastName |-> "", middleInitial |-> "",
     title |-> "", gpa |-> 0, currentCourse |-> "",
     studentId |-> to_string(n + 100) \o "Id"]

\* Student::Student(fn, ln, mi, t, avg, course, id)
ParamStudent(a) ==
    [firstName |-> a.firstName, lastName |-> a.lastName,
     middleInitial |-> a.middleInitial, title |-> a.title,
     gpa |-> a.gpa, currentCourse |-> a.currentCourse,
     studentId |-> a.studentId]

\* Student::Student(const Student &): Person(s) and the three members
CopyOfDropsGpa(s) ==
    [firstName |-> s.firstName, lastName |-> s.lastName,
     middleInitial |-> s.middleInitial, title |-> s.title,
     gpa |-> 0, currentCourse |-> s.currentCourse,
     studentId |-> s.studentId]

CopyOf(s) ==
    [firstName |-> s.firstName, lastName |-> s.lastName,
     middleInitial |-> s.middleInitial, title |-> s.title,
     gpa |-> s.gpa, currentCourse |-> s.currentCourse,
     studentId |-> s.studentId]

\* Student::GetStudentId
GetStudentId(s) == s.studentId

\* Student::GetNumberStudents
GetNumberStudents == numStudents

\* the slot a new object takes
FreeSlot == CHOOSE i \in Slots \ Live : \A j \in Slots \ Live : i <= j

\* f with slot i added, holding v
Place(f, i, v) == [j \in DOMAIN f \cup {i} |-> IF j = i THEN v ELSE f[j]]

\* f without the slots of D
Remove(f, D) == [j \in DOMAIN f \ D |-> f[j]]

Dispatching == <<validation, fault, tryChain, clause, handled, hookRuns, output, exitStatus>>

Init ==
    /\ pc = "start"
    /\ terminateHandler = "default"
    /\ students = << >>
    /\ ctor = << >>
    /\ numStudents = 0
    /\ validation = NoValidation
    /\ fault = NoFault
    /\ tryChain = << >>
    /\ clause = 0
    /\ handled = << >>
    /\ hookRuns = 0
    /\ output = << >>
    /\ exitStatus = NoStatus

\* main: set_terminate(AppSpecificTerminate)
SetTerminateSkipped ==
    /\ pc = "start"
    /\ pc' = "main"
    /\ UNCHANGED <<terminateHandler, students, ctor, numStudents, Dispatching>>

SetTerminate ==
    /\ pc = "start"
    /\ terminateHandler' = "AppSpecificTerminate"
    /\ pc' = "main"
    /\ UNCHANGED <<students, ctor, numStudents, Dispatching>>

\* Student::Student()
ConstructDefault ==
    /\ pc = "main"
    /\ Live # Slots
    /\ students' = Place(students, FreeSlot, DefaultStudent(numStudents))
    /\ ctor' = Place(ctor, FreeSlot, "default")
    /\ numStudents' = numStudents + 1
    /\ UNCHANGED <<pc, terminateHandler, Dispatching>>

\* Student::Student(fn, ln, mi, t, avg, course, id)
ConstructParam(a) ==
    /\ pc = "main"
    /\ Live # Slots
    /\ students' = Place(students, FreeSlot, ParamStudent(a))
    /\ ctor' = Place(ctor, FreeSlot, "param")
    /\ numStudents' = numStudents + 1
    /\ UNCHANGED <<pc, terminateHandler, Dispatching>>

\* Student::Student(const Student &)
ConstructCopyNoCount(s) ==
    /\ pc = "main"
    /\ Live # Slots
    /\ students' = Place(students, FreeSlot, CopyOf(students[s]))
    /\ ctor' = Place(ctor, FreeSlot, "copy")
    /\ UNCHANGED <<pc, terminateHandler, numStudents, Dispatching>>

ConstructCopy(s) ==
    /\ pc = "main"
    /\ Live # Slots
    /\ students' = Place(students, FreeSlot, CopyOf(students[s]))
    /\ ctor' = Place(ctor, FreeSlot, "copy")
    /\ numStudents' = numStudents + 1
    /\ UNCHANGED <<pc, terminateHandler, Dispatching>>

\* Student::~Student()
Destroy(i) ==
    /\ pc = "main"
    /\ students' = Remove(students, {i})
    /\ ctor' = Remove(ctor, {i})
    /\ numStudents' = numStudents - 1
    /\ UNCHANGED <<pc, terminateHandler, Dispatching>>

\* Student::SetCurrentCourse
SetCurrentCourseSetsId(i, c) ==
    /\ pc = "main"
    /\ students' = [students EXCEPT ![i].studentId = c]
    /\ UNCHANGED <<pc, terminateHandler, ctor, numStudents, Dispatching>>

SetCurrentCourse(i, c) ==
    /\ pc = "main"
    /\ students' = [students EXCEPT ![i].currentCourse = c]
    /\ UNCHANGED <<pc, terminateHandler, ctor, numStudents, Dispatching>>

\* Student::EarnPhD: Person::ModifyTitle("Dr.")
EarnPhD(i) ==
    /\ pc = "main"
    /\ students' = [students EXCEPT ![i].title = "Dr."]
    /\ UNCHANGED <<pc, terminateHandler, ctor, numStudents, Dispatching>>

\* the chain of try blocks around a call: main's try block, or none
ChainOf(inTry) == IF inTry THEN <<MainClauses>> ELSE << >>

\* validation function op of object i is called and ends with f: an
\* exception thrown, or (NoFault) a return to the caller, which as the body
\* of the try block leaves the block normally
Call(op, i, f, inTry) ==
    /\ validation' = [op |-> op, self |-> i]
    /\ IF f.kind = "none"
       THEN /\ pc' = IF inTry THEN "afterTry" ELSE "main"
            /\ UNCHANGED <<fault, tryChain>>
       ELSE /\ fault' = f
            /\ tryChain' = ChainOf(inTry)
            /\ pc' = "thrown"
    /\ UNCHANGED <<terminateHandler, students, ctor, numStudents, clause,
                   handled, hookRuns, output, exitStatus>>

\* s.Graduate(), in main's try block or outside of any
InvokeGraduate(i, inTry) ==
    /\ pc = "main"
    /\ Call("Graduate", i, Graduate(students[i]), inTry)

\* s.Validate()
InvokeValidate(i, inTry) ==
    /\ pc = "main"
    /\ Call("Validate", i, Validate(students[i]), inTry)

\* a call of an override of the virtual Graduate or Validate, through an
\* object of a derived class (which has no slot of its own here)
InvokeOverride(f, inTry) ==
    /\ pc = "main"
    /\ Call("override", 0, f, inTry)

\* s.TakePrerequisites(): returns; as the body of the try block, the block
\* is left normally
InvokeTakePrerequisites(i, inTry) ==
    /\ pc = "main"
    /\ TakePrerequisites(students[i]) = FALSE
    /\ pc' = IF inTry THEN "afterTry" ELSE "main"
    /\ UNCHANGED <<terminateHandler, students, ctor, numStudents, Dispatching>>

\* the search for a handler of the exception thrown.  With a handler found,
\* the objects of main's scope stay; with none, std::terminate is called and
\* whether the stack is unwound first (destroying main's objects) is up to
\* the implementation.
Unwind ==
    /\ pc = "thrown"
    /\ LET h == FindHandler(tryChain, fault, 1) IN
         IF h[1] # 0
         THEN /\ clause' = h[2]
              /\ pc' = "handling"
              /\ UNCHANGED <<students, ctor, numStudents>>
         ELSE /\ clause' = 0
              /\ pc' = "terminating"
              /\ \E D \in {{}, Live} :
                    /\ students' = Remove(students, D)
                    /\ ctor' = Remove(ctor, D)
                    /\ numStudents' = numStudents - Cardinality(D)
    /\ UNCHANGED <<terminateHandler, validation, fault, tryChain, handled, hookRuns,
                   output, exitStatus>>

\* exit(status): the process ends; no automatic object is destroyed
Exit(status) ==
    /\ pc' = "exited"
    /\ exitStatus' = status
    /\ UNCHANGED <<terminateHandler, students, ctor, numStudents, validation, fault,
                   tryChain, clause>>

\* the handler of clause type c is entered
Entered(c) ==
    /\ pc = "handling"
    /\ MainClauses[clause] = c
    /\ handled' = Append(handled, c)
    /\ UNCHANGED hookRuns

\* catch (float err)
CatchFloat ==
    /\ Entered("float")
    /\ output' = Append(output, "Too low gpa: " \o FormatFloat(fault.payload))
    /\ Exit(1)

\* catch (int err)
CatchInt ==
    /\ Entered("int")
    /\ output' = Append(output, "Missing " \o ToString(fault.payload) \o " credits")
    /\ Exit(2)

\* catch (const char *err)
CatchCharPtr ==
    /\ Entered("const char*")
    /\ output' = Append(output, fault.payload)
    /\ Exit(4)

\* catch (const Student::StudentException &err)
CatchStudentExceptionResumes ==
    /\ Entered("StudentException")
    /\ output' = Append(output, "Error: " \o ToString(GetNum(fault.payload)))
    /\ pc' = "afterTry"
    /\ UNCHANGED <<terminateHandler, students, ctor, numStudents, validation, fault,
                   tryChain, clause, exitStatus>>

CatchStudentException ==
    /\ Entered("StudentException")
    /\ output' = Append(output, "Error: " \o ToString(GetNum(fault.payload)))
    /\ Exit(5)

\* catch (...)
CatchAll ==
    /\ Entered("...")
    /\ output' = Append(output, "Exiting")
    /\ Exit(6)

\* std::terminate calls the registered function: AppSpecificTerminate
AppSpecificTerminate ==
    /\ pc = "terminating"
    /\ terminateHandler = "AppSpecificTerminate"
    /\ hookRuns' = hookRuns + 1
    /\ output' = Append(output, "Uncaught exception. Program terminating")
    /\ Exit(1)
    /\ UNCHANGED handled

\* the code after the try block, return 0: the objects of main are destroyed
MainReturn ==
    /\ pc = "afterTry"
    /\ output' = Append(output, "Moving onward with remainder of code.")
    /\ students' = << >>
    /\ ctor' = << >>
    /\ numStudents' = numStudents - Cardinality(Live)
    /\ pc' = "returned"
    /\ exitStatus' = 0
    /\ UNCHANGED <<terminateHandler, validation, fault, tryChain, clause, handled,
                   hookRuns>>

Next ==
    \/ SetTerminate
    \/ ConstructDefault
    \/ \E a \in ParamInputs : ConstructParam(a)
    \/ \E s \in Live : ConstructCopy(s)
    \/ \E i \in Live : Destroy(i)
    \/ \E i \in Live, c \in CourseInputs : SetCurrentCourse(i, c)
    \/ \E i \in Live : EarnPhD(i)
    \/ \E i \in Live, t \in BOOLEAN : InvokeGraduate(i, t)
    \/ \E i \in Live, t \in BOOLEAN : InvokeValidate(i, t)
    \/ \E f \in OverrideFaults, t \in BOOLEAN : InvokeOverride(f, t)
    \/ \E i \in Live, t \in BOOLEAN : InvokeTakePrerequisites(i, t)
    \/ Unwind
    \/ CatchFloat
    \/ CatchInt
    \/ CatchCharPtr
    \/ CatchStudentException
    \/ CatchAll
    \/ AppSpecificTerminate
    \/ MainReturn

Spec == Init /\ [][Next]_vars

\* ------------------------------------------------------------------ claims

Ended == pc \in {"exited", "returned"}

\* no clause of any active try block is of the exception's type or is ...
NoClauseAccepts ==
    \A l \in 1..Len(tryChain) : \A k \in 1..Len(tryChain[l]) :
        tryChain[l][k] \notin {"...", fault.kind}

\* C1: after any sequence of constructions (default, alternate, copy) and
\* destructions, numStudents is the number of live Student objects and is
\* never negative (so N constructions and N destructions bring it back).
C1_CounterIsLiveCount ==
    /\ numStudents = Cardinality(Live)
    /\ GetNumberStudents >= 0

\* two constructions, one of them a copy, then the destruction of the first
C1_Witness ==
    /\ pc = "main"
    /\ Live = {2}
    /\ ctor[2] = "copy"
    /\ numStudents = 1

\* C2: Graduate on a Student with gpa below 2.0 throws a float, and the
\* float is that Student's gpa.
C2_LowGpaThrowsGpa ==
    (/\ pc = "thrown"
     /\ validation.op = "Graduate"
     /\ students[validation.self].gpa < 20)
    => /\ fault.kind = "float"
       /\ fault.payload = students[validation.self].gpa

C2_Witness ==
    /\ pc = "thrown"
    /\ validation.op = "Graduate"
    /\ students[validation.self].gpa = 15
    /\ fault.kind = "float"
    /\ fault.payload = 15

C4_FirstMatchByKind ==
    /\ Len(handled) <= 1
    /\ (pc = "handling" /\ fault.kind = "StudentException") => clause = 4
    /\ handled # << >> =>
          handled[1] = (IF fault.kind \in {"float", "int", "const char*",
                                          "StudentException"}
                        THEN fault.kind ELSE "...")
    /\ (pc = "exited" /\ tryChain # << >>) => Len(handled) = 1

\* a StudentException whose number is the status of the float clause
C4_Witness ==
    /\ handled = <<"StudentException">>
    /\ fault.kind = "StudentException"
    /\ GetNum(fault.payload) = 1

\* C5: a handler that has run has ended the process, with status 1, 2, 4, 5
\* or 6 according to its clause, and the code after the try block has not
\* run; for the Student of main (gpa 3.1) the output is "Error: 5" and the
\* status 5.
C5_HandlersAreTerminal ==
    /\ handled # << >> =>
          /\ pc = "exited"
          /\ exitStatus = (CASE handled[1] = "float" -> 1
                             [] handled[1] = "int" -> 2
                             [] handled[1] = "const char*" -> 4
                             [] handled[1] = "StudentException" -> 5
                             [] OTHER -> 6)
          /\ \A k \in 1..Len(output) :
                output[k] # "Moving onward with remainder of code."
    /\ (/\ Ended
        /\ tryChain # << >>
        /\ validation.op = "Graduate"
        /\ students[validation.self] = Ling)
       => /\ output = <<"Error: 5">>
          /\ exitStatus = 5

C5_Witness ==
    /\ pc = "exited"
    /\ tryChain # << >>
    /\ validation.op = "Graduate"
    /\ students[validation.self] = Ling
    /\ output = <<"Error: 5">>
    /\ exitStatus = 5

\* C6: AppSpecificTerminate is registered before anything else runs; it is
\* called at most once, and by the end of the process it has been called
\* exactly when an exception was thrown that no clause of an active try
\* block accepts; its call ends the process with status 1.
C6_HookIffUnmatched ==
    /\ pc # "start" => terminateHandler = "AppSpecificTerminate"
    /\ hookRuns \in {0, 1}
    /\ hookRuns = 1 =>
          /\ pc = "exited"
          /\ exitStatus = 1
          /\ handled = << >>
          /\ fault.kind # "none"
          /\ NoClauseAccepts
    /\ (Ended /\ fault.kind # "none" /\ NoClauseAccepts) => hookRuns = 1

C6_Witness ==
    /\ hookRuns = 1
    /\ exitStatus = 1
    /\ output = <<"Uncaught exception. Program terminating">>

\* C7: every Student constructed has been destroyed, and the counter brought
\* back, by the time the process has ended, on every path.
C7_AllDestroyedAtEnd == Ended => (Live = {} /\ numStudents = 0)

\* C8: the copy constructor gives the new object the source's first name,
\* last name, middle initial, title, gpa, current course and student id,
\* adds one to numStudents and leaves the source as it was.
C8_CopyTakesEveryField ==
    [][\A s \in Live :
          ConstructCopy(s) =>
             LET d == FreeSlot IN
               /\ d \notin Live /\ d \in DOMAIN students'
               /\ students'[d].firstName = students[s].firstName
               /\ students'[d].lastName = students[s].lastName
               /\ students'[d].middleInitial = students[s].middleInitial
               /\ students'[d].title = students[s].title
               /\ students'[d].gpa = students[s].gpa
               /\ students'[d].currentCourse = students[s].currentCourse
               /\ students'[d].studentId = students[s].studentId
               /\ numStudents' = numStudents + 1
               /\ students'[s] = students[s]]_vars

\* a copy of a Student whose course and title were changed after construction
C8_Witness ==
    \E s, d \in Live :
        /\ s # d
        /\ ctor[s] = "param" /\ ctor[d] = "copy"
        /\ students[s].gpa = 31
        /\ students[s].currentCourse = "Adv. C++"
        /\ students[d] = students[s]

\* C9: no step changes the student id of an object that stays alive,
\* whatever is called on it or on another object.
C9_StudentIdFixed ==
    [][\A i \in Live \cap DOMAIN students' :
          GetStudentId(students'[i]) = GetStudentId(students[i])]_vars

\* a Student after SetCurrentCourse, EarnPhD and Graduate, beside another one
C9_Witness ==
    /\ pc = "exited"
    /\ validation.op = "Graduate"
    /\ Cardinality(Live) = 2
    /\ LET s == students[validation.self] IN
         /\ s.currentCourse = "Adv. C++"
         /\ s.title = "Dr."
         /\ GetStudentId(s) = "55UD"

\* C10: no two live default-constructed Students have the same student id.
C10_DefaultIdsUnique ==
    \A i, j \in Live :
        (i # j /\ ctor[i] = "default" /\ ctor[j] = "default")
        => GetStudentId(students[i]) # GetStudentId(students[j])

====
